---- MODULE Spec2Model ----
(***************************************************************************)
(* The "Readable" preference page: nine useSafeLocalStorage hooks (state,  *)
(* hydrate effect, persist effect), two projection effects, the preset     *)
(* table and the controls, as a state machine over React's commit cycle:   *)
(* a render applies the queued state updates, then the effects whose       *)
(* dependencies changed run one after the other, in declaration order.     *)
(*                                                                         *)
(* Numbers are fixed-point integers in units of 1/Scale; texts (string     *)
(* values and the raw contents of localStorage) are sequences of           *)
(* one-character strings, so that JSON.stringify and JSON.parse are        *)
(* computed character by character.                                        *)
(***************************************************************************)
EXTENDS Integers, Sequences, FiniteSets, TLC

(* ------------------------------ bounds --------------------------------- *)
\* keys that hold a record in localStorage when the page is first opened
MaxStored == 2
\* of those, records that no earlier visit of the page would have written
MaxOdd == 1
\* keys that hold a record when the page cannot write to localStorage
MaxStoredNoWrite == 1
\* control events (clicks, slider moves, typing) over the whole behaviour
MaxEdits == 1
\* page reloads
MaxRestarts == 1

(* ------------------------------ values --------------------------------- *)
\* finest slider step is 0.005: three decimal places represent every value
Scale == 1000

Num(n) == [t |-> "num", n |-> n, s |-> <<>>]
Str(s) == [t |-> "str", n |-> 0, s |-> s]
Null == [t |-> "null", n |-> 0, s |-> <<>>]

Light == <<"l", "i", "g", "h", "t">>
Dark == <<"d", "a", "r", "k">>
HighContrast == <<"h", "i", "g", "h", "-", "c", "o", "n", "t", "r", "a", "s", "t">>
System == <<"s", "y", "s", "t", "e", "m">>
Atkinson == <<"a", "t", "k", "i", "n", "s", "o", "n">>

\* the hooks of Page, in declaration order
KeyOrder ==
  <<"theme", "fontFamily", "fontSize", "lineHeight", "letterSpacing",
    "wordSpacing", "maxWidthCh", "paraSpacingEm", "inputText">>

Keys == {KeyOrder[i] : i \in 1..Len(KeyOrder)}

\* variant: the word-spacing hook is given the letter-spacing hook's key
StorageKeyShared ==
  [k \in Keys |->
     CASE k = "theme" -> "readable:theme"
       [] k = "fontFamily" -> "readable:font"
       [] k = "fontSize" -> "readable:fontSize"
       [] k = "lineHeight" -> "readable:lineHeight"
       [] k = "letterSpacing" -> "readable:letterSpacing"
       [] k = "wordSpacing" -> "readable:letterSpacing"
       [] k = "maxWidthCh" -> "readable:maxWidth"
       [] k = "paraSpacingEm" -> "readable:paraSpacing"
       [] k = "inputText" -> "readable:text"]

\* first argument of each useSafeLocalStorage call
StorageKey ==
  [k \in Keys |->
     CASE k = "theme" -> "readable:theme"
       [] k = "fontFamily" -> "readable:font"
       [] k = "fontSize" -> "readable:fontSize"
       [] k = "lineHeight" -> "readable:lineHeight"
       [] k = "letterSpacing" -> "readable:letterSpacing"
       [] k = "wordSpacing" -> "readable:wordSpacing"
       [] k = "maxWidthCh" -> "readable:maxWidth"
       [] k = "paraSpacingEm" -> "readable:paraSpacing"
       [] k = "inputText" -> "readable:text"]

\* second argument of each useSafeLocalStorage call
InitialValue ==
  [k \in Keys |->
     CASE k = "theme" -> Str(Light)
       [] k = "fontFamily" -> Str(System)
       [] k = "fontSize" -> Num(18000)
       [] k = "lineHeight" -> Num(1650)
       [] k = "letterSpacing" -> Num(0)
       [] k = "wordSpacing" -> Num(0)
       [] k = "maxWidthCh" -> Num(68000)
       [] k = "paraSpacingEm" -> Num(750)
       [] k = "inputText" -> Str(<<>>)]

NumericKeys ==
  {"fontSize", "lineHeight", "letterSpacing", "wordSpacing", "maxWidthCh", "paraSpacingEm"}

\* the keys a preset sets
DisplayKeys == Keys \ {"inputText"}

\* min and max attributes of the range inputs
RangeMin ==
  [k \in NumericKeys |->
     CASE k = "fontSize" -> 14000
       [] k = "lineHeight" -> 1200
       [] k = "letterSpacing" -> -20
       [] k = "wordSpacing" -> 0
       [] k = "maxWidthCh" -> 50000
       [] k = "paraSpacingEm" -> 400]

RangeMax ==
  [k \in NumericKeys |->
     CASE k = "fontSize" -> 26000
       [] k = "lineHeight" -> 2000
       [] k = "letterSpacing" -> 100
       [] k = "wordSpacing" -> 6000
       [] k = "maxWidthCh" -> 85000
       [] k = "paraSpacingEm" -> 1400]

Themes == {Light, Dark, HighContrast}
Fonts == {System, Atkinson}

(* ------------------------------- JSON ---------------------------------- *)
DigitChars == <<"0", "1", "2", "3", "4", "5", "6", "7", "8", "9">>

DigitChar(d) == DigitChars[d + 1]

IsDigit(c) == \E i \in 1..10 : DigitChars[i] = c

DigitValue(c) == (CHOOSE i \in 1..10 : DigitChars[i] = c) - 1

RECURSIVE NatText(_)
NatText(n) ==
  IF n < 10 THEN <<DigitChar(n)>>
  ELSE NatText(n \div 10) \o <<DigitChar(n % 10)>>

\* the fraction f/(10*unit) without trailing zeros
RECURSIVE FracText(_, _)
FracText(f, unit) ==
  IF f = 0 \/ unit = 0 THEN <<>>
  ELSE <<DigitChar(f \div unit)>> \o FracText(f % unit, unit \div 10)

Abs(n) == IF n < 0 THEN -n ELSE n

\* Number.prototype.toString of a finite number
NumberText(n) ==
  (IF n < 0 THEN <<"-">> ELSE <<>>)
  \o NatText(Abs(n) \div Scale)
  \o (IF Abs(n) % Scale = 0 THEN <<>>
      ELSE <<".">> \o FracText(Abs(n) % Scale, Scale \div 10))

EscapeChar(c) ==
  CASE c = "\"" -> <<"\\", "\"">>
    [] c = "\\" -> <<"\\", "\\">>
    [] c = "\n" -> <<"\\", "n">>
    [] OTHER -> <<c>>

RECURSIVE EscapeText(_)
EscapeText(s) ==
  IF s = <<>> THEN <<>> ELSE EscapeChar(Head(s)) \o EscapeText(Tail(s))

NullText == <<"n", "u", "l", "l">>

\* variant: a string is quoted without escaping its characters
JSONstringifyUnescaped(v) ==
  CASE v.t = "num" -> NumberText(v.n)
    [] v.t = "str" -> <<"\"">> \o v.s \o <<"\"">>
    [] OTHER -> NullText

JSONstringify(v) ==
  CASE v.t = "num" -> NumberText(v.n)
    [] v.t = "str" -> <<"\"">> \o EscapeText(v.s) \o <<"\"">>
    [] OTHER -> NullText

Failed == [ok |-> FALSE, v |-> Null]
Parsed(v) == [ok |-> TRUE, v |-> v]

\* the characters between the quotes of a JSON string
RECURSIVE ParseChars(_)
ParseChars(cs) ==
  IF cs = <<>> THEN [ok |-> TRUE, s |-> <<>>]
  ELSE IF Head(cs) = "\"" \/ Head(cs) = "\n" THEN [ok |-> FALSE, s |-> <<>>]
  ELSE IF Head(cs) = "\\" THEN
    IF Len(cs) < 2 \/ cs[2] \notin {"\"", "\\", "n"} THEN [ok |-> FALSE, s |-> <<>>]
    ELSE LET rest == ParseChars(Tail(Tail(cs)))
             c == IF cs[2] = "n" THEN "\n" ELSE cs[2]
         IN [ok |-> rest.ok, s |-> <<c>> \o rest.s]
  ELSE LET rest == ParseChars(Tail(cs))
       IN [ok |-> rest.ok, s |-> <<Head(cs)>> \o rest.s]

AllDigits(cs) == \A i \in 1..Len(cs) : IsDigit(cs[i])

RECURSIVE DigitsValue(_)
DigitsValue(cs) ==
  IF cs = <<>> THEN 0
  ELSE DigitsValue(SubSeq(cs, 1, Len(cs) - 1)) * 10 + DigitValue(cs[Len(cs)])

RECURSIVE Pow10(_)
Pow10(e) == IF e = 0 THEN 1 ELSE 10 * Pow10(e - 1)

\* number of decimal places Scale represents
RECURSIVE Places(_)
Places(unit) == IF unit <= 1 THEN 0 ELSE 1 + Places(unit \div 10)

DotAt(cs) ==
  IF \E i \in 1..Len(cs) : cs[i] = "." THEN CHOOSE i \in 1..Len(cs) : cs[i] = "." ELSE 0

\* an unsigned JSON number without exponent: int [ "." digits ]
ParseUnsigned(cs) ==
  LET d == DotAt(cs)
      int == IF d = 0 THEN cs ELSE SubSeq(cs, 1, d - 1)
      frac == IF d = 0 THEN <<>> ELSE SubSeq(cs, d + 1, Len(cs))
      intOk == int # <<>> /\ AllDigits(int) /\ (Len(int) = 1 \/ int[1] # "0")
      fracOk == IF d = 0 THEN TRUE
                ELSE frac # <<>> /\ AllDigits(frac) /\ Len(frac) <= Places(Scale)
  IN IF intOk /\ fracOk
     THEN [ok |-> TRUE,
           n |-> DigitsValue(int) * Scale
                 + DigitsValue(frac) * Pow10(Places(Scale) - Len(frac))]
     ELSE [ok |-> FALSE, n |-> 0]

\* JSON.parse of a text holding a number (at most Places(Scale) decimals, no
\* exponent), a string or null; any other text is a SyntaxError
JSONparse(raw) ==
  IF raw = NullText THEN Parsed(Null)
  ELSE IF raw = <<>> THEN Failed
  ELSE IF Head(raw) = "\"" THEN
    IF Len(raw) < 2 \/ raw[Len(raw)] # "\"" THEN Failed
    ELSE LET body == ParseChars(SubSeq(raw, 2, Len(raw) - 1))
         IN IF body.ok THEN Parsed(Str(body.s)) ELSE Failed
  ELSE IF Head(raw) = "-" THEN
    LET u == ParseUnsigned(Tail(raw))
    IN IF u.ok THEN Parsed(Num(-u.n)) ELSE Failed
  ELSE LET u == ParseUnsigned(raw)
       IN IF u.ok THEN Parsed(Num(u.n)) ELSE Failed

(* ---------------------------- environment ------------------------------ *)
\* what a first visit may find under each storage key: a value an earlier
\* visit saved, or a text no visit would have saved, which is a well-formed
\* JSON value outside the key's type or range, or not JSON at all
SavedText ==
  [k \in Keys |->
     CASE k = "theme" -> JSONstringify(Str(Dark))
       [] k = "fontFamily" -> JSONstringify(Str(Atkinson))
       [] k = "fontSize" -> <<"2", "2">>
       [] k = "lineHeight" -> <<"1", ".", "9">>
       [] k = "letterSpacing" -> <<"0", ".", "0", "0", "5">>
       [] k = "wordSpacing" -> <<"2">>
       [] k = "maxWidthCh" -> <<"6", "0">>
       [] k = "paraSpacingEm" -> <<"1", ".", "1">>
       [] k = "inputText" -> <<"\"", "a", "\\", "\"", "\"">>]

OddTexts ==
  [k \in Keys |->
     CASE k = "theme" -> {<<"7">>, Light}
       [] k = "fontFamily" -> {NullText, <<"{">>}
       [] k = "fontSize" -> {<<"1", "0", "0">>, <<"1", "8", "p", "x">>}
       [] k = "lineHeight" -> {NullText, <<"0", "1", ".", "5">>}
       [] k = "letterSpacing" -> {<<"-", "1">>, <<"-">>}
       [] k = "wordSpacing" -> {<<"-", "1">>, <<>>}
       [] k = "maxWidthCh" -> {<<"1", "2", "0">>, <<"{">>}
       [] k = "paraSpacingEm" -> {<<"\"", "a", "\"">>, <<"1", ".">>}
       [] k = "inputText" -> {<<"5">>, <<"\"", "a">>}]

BootTexts == [k \in Keys |-> {SavedText[k]} \cup OddTexts[k]]

\* window.localStorage as the browser offers it to the page: available; full,
\* so that setItem throws; denied, so that every access throws
StorageModes == {"ok", "full", "denied"}

\* values the controls deliver: a range input reports a value between its
\* min and max, a button or option its own value, the textarea any string
SliderStops(k) == {RangeMin[k], RangeMax[k]}
TextInputs == {<<"a">>, <<"\"", "\\">>}

(* -------------------------------- state -------------------------------- *)
VARIABLES
  value,        \* useState value of each hook, as of the last commit
  queue,        \* setValue calls not yet rendered, per hook, oldest first
  ahead,        \* per hook, how many updates at the head of its queue are a
                \* control's (urgent), queued before the mount effects ran
  sync,         \* a control event's updates are queued: React renders next
  pending,      \* effects of the last commit still to run, in order
  phase,        \* "mount" until the first effect pass is over, then "live"
  remounted,    \* development build: the mount effects have been run again
  crashed,      \* an error escaped: React has unmounted the page
  storage,      \* localStorage: storage key -> text, for the keys present
  storageMode,  \* availability of localStorage to this browser profile
  dataTheme,    \* data-theme attribute of the root element
  style,        \* the --reader-* custom properties of the root element
  boot,         \* history: storage when this page load started
  readThrew,    \* history: hooks whose hydrate read threw in this page load
  lastSet,      \* history: argument of the latest setValue a control made
  durable,      \* history: hooks whose record holds their latest control value
  prior,        \* history: control values written before the last reload
  attempted,    \* history: value of the latest setItem call of each hook
  writeFailed,  \* history: hooks whose latest setItem call threw
  owed,         \* history: hooks set by a control with no setItem call since
  lastPreset,   \* history: preset of the latest control event, if it was one
  preApply,     \* history: the state and the text record when it was clicked
  edits,        \* control events so far
  restarts,     \* reloads so far
  ended,        \* how the latest event handler ended, if there was one
  early         \* history: the keys whose latest set came before the mount effects

vars ==
  <<value, queue, sync, pending, phase, remounted, crashed, storage, storageMode,
    dataTheme, style, boot, readThrew, lastSet, durable, prior, attempted,
    writeFailed, owed, lastPreset, preApply, edits, restarts, ended, ahead, early>>

NoEvent == "none"
NoneAhead == [k \in Keys |-> 0]
None == [t |-> "none", n |-> 0, s |-> <<>>]
NoPreset == "-"
NoRecord == <<"absent">>

Eff(e, k) == [e |-> e, k |-> k]

\* the effects of the first commit: per hook its hydrate and persist
\* effects, then the two projection effects of Page
RECURSIVE MountEffectsFrom(_)
MountEffectsFrom(i) ==
  IF i > Len(KeyOrder) THEN <<Eff("theme", "-"), Eff("style", "-")>>
  ELSE <<Eff("hydrate", KeyOrder[i]), Eff("persist", KeyOrder[i])>>
       \o MountEffectsFrom(i + 1)

MountEffects == MountEffectsFrom(1)

StyleKeys == DisplayKeys \ {"theme"}

\* variant: the persist effect depends on [key] alone
PersistEffectsMountOnly(i, old, new) == <<>>

\* the effects whose dependency arrays changed between two commits
RECURSIVE PersistEffectsFrom(_, _, _)
PersistEffectsFrom(i, old, new) ==
  IF i > Len(KeyOrder) THEN <<>>
  ELSE (IF old[KeyOrder[i]] # new[KeyOrder[i]]
        THEN <<Eff("persist", KeyOrder[i])>> ELSE <<>>)
       \o PersistEffectsFrom(i + 1, old, new)

\* variant: fontSize is missing from the style effect's dependency array
UpdateEffectsNoSize(old, new) ==
  PersistEffectsFrom(1, old, new)
  \o (IF old["theme"] # new["theme"] THEN <<Eff("theme", "-")>> ELSE <<>>)
  \o (IF \E k \in StyleKeys \ {"fontSize"} : old[k] # new[k]
      THEN <<Eff("style", "-")>> ELSE <<>>)

UpdateEffects(old, new) ==
  PersistEffectsFrom(1, old, new)
  \o (IF old["theme"] # new["theme"] THEN <<Eff("theme", "-")>> ELSE <<>>)
  \o (IF \E k \in StyleKeys : old[k] # new[k] THEN <<Eff("style", "-")>> ELSE <<>>)

\* String(v), as a template literal or setAttribute converts a value
ToText(v) ==
  CASE v.t = "num" -> NumberText(v.n)
    [] v.t = "str" -> v.s
    [] OTHER -> NullText

FontStack(v) ==
  IF v = Str(Atkinson) THEN "var(--font-atkinson), var(--font-sans)"
  ELSE "var(--font-sans)"

\* the seven setProperty calls of the style effect
StyleOf(v) ==
  [font |-> FontStack(v["fontFamily"]),
   fontSize |-> ToText(v["fontSize"]) \o <<"p", "x">>,
   lineHeight |-> ToText(v["lineHeight"]),
   letterSpacing |-> ToText(v["letterSpacing"]) \o <<"e", "m">>,
   wordSpacing |-> ToText(v["wordSpacing"]) \o <<"p", "x">>,
   maxWidth |-> ToText(v["maxWidthCh"]) \o <<"c", "h">>,
   paragraphSpacing |-> ToText(v["paraSpacingEm"]) \o <<"e", "m">>]

NoStyle ==
  [font |-> "", fontSize |-> <<>>, lineHeight |-> <<>>, letterSpacing |-> <<>>,
   wordSpacing |-> <<>>, maxWidth |-> <<>>, paragraphSpacing |-> <<>>]

\* the JSX of Page calls toFixed on three values and split on the text
RenderThrows(v) ==
  \/ v["lineHeight"].t # "num"
  \/ v["letterSpacing"].t # "num"
  \/ v["paraSpacingEm"].t # "num"
  \/ (v["inputText"].t = "num" /\ v["inputText"].n # 0)

HasRecord(st, k) == StorageKey[k] \in DOMAIN st
RecordOf(st, k) == IF HasRecord(st, k) THEN st[StorageKey[k]] ELSE NoRecord

WithRecord(st, sk, text) ==
  [x \in DOMAIN st \cup {sk} |-> IF x = sk THEN text ELSE st[x]]

BootStores ==
  UNION {[{StorageKey[k] : k \in S} -> UNION {BootTexts[k] : k \in S}]
         : S \in {T \in SUBSET Keys : Cardinality(T) <= MaxStored}}

Init ==
  /\ value = InitialValue
  /\ queue = [k \in Keys |-> <<>>]
  /\ sync = FALSE
  /\ pending = MountEffects
  /\ phase = "mount"
  /\ remounted = FALSE
  /\ crashed = FALSE
  /\ storage \in BootStores
  /\ \A k \in Keys : HasRecord(storage, k) => storage[StorageKey[k]] \in BootTexts[k]
  /\ Cardinality({k \in Keys : /\ HasRecord(storage, k)
                               /\ storage[StorageKey[k]] \in OddTexts[k]}) <= MaxOdd
  /\ storageMode \in StorageModes
  /\ storageMode # "ok" => Cardinality(DOMAIN storage) <= MaxStoredNoWrite
  /\ dataTheme = <<>>
  /\ style = NoStyle
  /\ boot = storage
  /\ readThrew = {}
  /\ lastSet = [k \in Keys |-> None]
  /\ durable = {}
  /\ prior = [k \in Keys |-> None]
  /\ attempted = [k \in Keys |-> None]
  /\ writeFailed = {}
  /\ owed = {}
  /\ lastPreset = NoPreset
  /\ preApply = [value |-> InitialValue, text |-> InitialValue["inputText"],
                 record |-> NoRecord]
  /\ edits = 0
  /\ restarts = 0
  /\ ended = NoEvent
  /\ ahead = NoneAhead
  /\ early = {}

(* ------------------------------- hooks --------------------------------- *)
\* variant: the first queued update wins
ReduceOldest(v, q) == IF q = <<>> THEN v ELSE q[1]

\* useState: the state after the queued setValue calls, each replacing the
\* state with its argument
Reduce(v, q) == IF q = <<>> THEN v ELSE q[Len(q)]

\* variant: every setValue call is rendered on its own
RenderTakesOne(q) ==
  IF \A k \in Keys : q[k] = <<>> THEN {}
  ELSE LET i == CHOOSE i \in 1..Len(KeyOrder) :
                  /\ q[KeyOrder[i]] # <<>>
                  /\ \A j \in 1..(i - 1) : q[KeyOrder[j]] = <<>>
       IN {KeyOrder[i]}

\* the hooks whose queued updates one render processes: React batches every
\* update queued before the render
RenderTakes(q) == {k \in Keys : q[k] # <<>>}

\* variant: JSON.parse is called outside the try block
HydrateResultUncaught(st, mode, k) ==
  IF mode = "denied"
  THEN [threw |-> TRUE, set |-> FALSE, v |-> Null, escaped |-> FALSE]
  ELSE IF ~HasRecord(st, k)
  THEN [threw |-> FALSE, set |-> FALSE, v |-> Null, escaped |-> FALSE]
  ELSE LET p == JSONparse(RecordOf(st, k))
       IN IF p.ok THEN [threw |-> FALSE, set |-> TRUE, v |-> p.v, escaped |-> FALSE]
          ELSE [threw |-> FALSE, set |-> FALSE, v |-> Null, escaped |-> TRUE]

\* variant: without the null test, JSON.parse(null) gives null and setValue
\* is called with it
HydrateResultNoNullTest(st, mode, k) ==
  IF mode = "denied"
  THEN [threw |-> TRUE, set |-> FALSE, v |-> Null, escaped |-> FALSE]
  ELSE IF ~HasRecord(st, k)
  THEN [threw |-> FALSE, set |-> TRUE, v |-> Null, escaped |-> FALSE]
  ELSE LET p == JSONparse(RecordOf(st, k))
       IN IF p.ok THEN [threw |-> FALSE, set |-> TRUE, v |-> p.v, escaped |-> FALSE]
          ELSE [threw |-> FALSE, set |-> FALSE, v |-> Null, escaped |-> FALSE]

\* body of the hydrate effect: getItem, the null test, JSON.parse, setValue,
\* all inside try/catch; threw tells whether the read threw, escaped whether
\* an error leaves the effect
HydrateResult(st, mode, k) ==
  IF mode = "denied"
  THEN [threw |-> TRUE, set |-> FALSE, v |-> Null, escaped |-> FALSE]
  ELSE IF ~HasRecord(st, k)
  THEN [threw |-> FALSE, set |-> FALSE, v |-> Null, escaped |-> FALSE]
  ELSE LET p == JSONparse(RecordOf(st, k))
       IN IF p.ok THEN [threw |-> FALSE, set |-> TRUE, v |-> p.v, escaped |-> FALSE]
          ELSE [threw |-> FALSE, set |-> FALSE, v |-> Null, escaped |-> FALSE]

\* variant: setItem is called outside the try block
PersistResultUncaught(st, mode, k, v) ==
  IF mode = "ok"
  THEN [storage |-> WithRecord(st, StorageKey[k], JSONstringify(v)),
        threw |-> FALSE, escaped |-> FALSE]
  ELSE [storage |-> st, threw |-> TRUE, escaped |-> TRUE]

\* variant: the persist effect leaves a record that exists alone
PersistResultIfAbsent(st, mode, k, v) ==
  IF mode = "ok"
  THEN [storage |-> IF HasRecord(st, k) THEN st
                    ELSE WithRecord(st, StorageKey[k], JSONstringify(v)),
        threw |-> FALSE, escaped |-> FALSE]
  ELSE [storage |-> st, threw |-> TRUE, escaped |-> FALSE]

\* body of the persist effect: setItem(key, JSON.stringify(value)) inside
\* try/catch; escaped tells whether an error leaves the effect
PersistResult(st, mode, k, v) ==
  IF mode = "ok"
  THEN [storage |-> WithRecord(st, StorageKey[k], JSONstringify(v)),
        threw |-> FALSE, escaped |-> FALSE]
  ELSE [storage |-> st, threw |-> TRUE, escaped |-> FALSE]

Quiescent == pending = <<>> /\ \A k \in Keys : queue[k] = <<>>

HeadIs(e, k) == pending # <<>> /\ Head(pending) = Eff(e, k)

NoPreApply == [value |-> InitialValue, text |-> InitialValue["inputText"], record |-> NoRecord]

HydrateEffect(k) ==
  /\ HeadIs("hydrate", k)
  /\ LET r == HydrateResult(storage, storageMode, k)
     IN /\ queue' = IF r.set THEN [queue EXCEPT ![k] = Append(@, r.v)] ELSE queue
        /\ readThrew' = IF r.threw THEN readThrew \cup {k} ELSE readThrew
        /\ crashed' = (crashed \/ r.escaped)
        /\ pending' = IF r.escaped THEN <<>> ELSE Tail(pending)
  /\ UNCHANGED <<value, sync, phase, remounted, storage, storageMode, dataTheme,
                 style, boot, lastSet, durable, prior, attempted, writeFailed,
                 owed, lastPreset, preApply, edits, restarts, ended, ahead, early>>

PersistEffect(k) ==
  /\ HeadIs("persist", k)
  /\ LET r == PersistResult(storage, storageMode, k, value[k])
     IN /\ storage' = r.storage
        /\ crashed' = (crashed \/ r.escaped)
        /\ pending' = IF r.escaped THEN <<>> ELSE Tail(pending)
        /\ writeFailed' = IF r.threw THEN writeFailed \cup {k} ELSE writeFailed \ {k}
        /\ durable' = IF r.threw THEN durable
                      ELSE IF lastSet[k] # None /\ value[k] = lastSet[k]
                      THEN durable \cup {k} ELSE durable \ {k}
  /\ attempted' = [attempted EXCEPT ![k] = value[k]]
  /\ owed' = owed \ {k}
  /\ UNCHANGED <<value, queue, sync, phase, remounted, storageMode, dataTheme, style, boot,
                 readThrew, lastSet, prior, lastPreset, preApply, edits,
                 restarts, ended, ahead, early>>

ThemeEffect ==
  /\ HeadIs("theme", "-")
  /\ dataTheme' = ToText(value["theme"])
  /\ pending' = Tail(pending)
  /\ UNCHANGED <<value, queue, sync, phase, remounted, crashed, storage, storageMode, style,
                 boot, readThrew, lastSet, durable, prior, attempted,
                 writeFailed, owed, lastPreset, preApply, edits, restarts, ended, ahead, early>>

StyleEffect ==
  /\ HeadIs("style", "-")
  /\ style' = StyleOf(value)
  /\ pending' = Tail(pending)
  /\ UNCHANGED <<value, queue, sync, phase, remounted, crashed, storage, storageMode,
                 dataTheme, boot, readThrew, lastSet, durable, prior, attempted,
                 writeFailed, owed, lastPreset, preApply, edits, restarts, ended, ahead, early>>

\* a render of Page: the queued updates become the state, the JSX is
\* evaluated, and the commit schedules the effects whose dependencies
\* changed. Updates a control queued ahead of the hydrate effects are urgent
\* and rendered first, on their own; the hydrate updates behind them stay
\* queued for the next render
Render ==
  /\ pending = <<>>
  /\ ~crashed
  /\ RenderTakes(queue) # {}
  /\ LET urgent == {k \in Keys : ahead[k] > 0}
         taken == IF urgent # {} THEN urgent ELSE RenderTakes(queue)
         upto == [k \in Keys |-> IF urgent # {} THEN ahead[k] ELSE Len(queue[k])]
         new == [k \in Keys |->
                   IF k \in taken
                   THEN Reduce(value[k], SubSeq(queue[k], 1, upto[k]))
                   ELSE value[k]]
         left == [k \in Keys |->
                    IF k \in taken
                    THEN SubSeq(queue[k], upto[k] + 1, Len(queue[k]))
                    ELSE queue[k]]
     IN IF RenderThrows(new)
        THEN /\ crashed' = TRUE
             /\ queue' = [k \in Keys |-> <<>>]
             /\ sync' = FALSE
             /\ UNCHANGED <<value, pending>>
        ELSE /\ value' = new
             /\ queue' = left
             /\ sync' = (sync /\ urgent = {} /\ \E k \in Keys : left[k] # <<>>)
             /\ pending' = UpdateEffects(value, new)
             /\ UNCHANGED crashed
  /\ ahead' = NoneAhead
  /\ phase' = "live"
  /\ UNCHANGED <<remounted, storage, storageMode, dataTheme, style, boot, readThrew,
                 lastSet, durable, prior, attempted, writeFailed, owed,
                 lastPreset, preApply, edits, restarts, ended, early>>

(* ------------------------------ controls ------------------------------- *)
\* the values of each preset, in the order its closure sets them
PresetValues(name) ==
  CASE name = "Default" ->
         <<<<"fontFamily", Str(System)>>, <<"fontSize", Num(18000)>>,
           <<"lineHeight", Num(1650)>>, <<"letterSpacing", Num(0)>>,
           <<"wordSpacing", Num(0)>>, <<"maxWidthCh", Num(68000)>>,
           <<"paraSpacingEm", Num(750)>>, <<"theme", Str(Light)>>>>
    [] name = "Reader" ->
         <<<<"fontFamily", Str(System)>>, <<"fontSize", Num(19000)>>,
           <<"lineHeight", Num(1700)>>, <<"letterSpacing", Num(5)>>,
           <<"wordSpacing", Num(1000)>>, <<"maxWidthCh", Num(65000)>>,
           <<"paraSpacingEm", Num(900)>>, <<"theme", Str(Light)>>>>
    [] name = "Dyslexia-friendly" ->
         <<<<"fontFamily", Str(Atkinson)>>, <<"fontSize", Num(20000)>>,
           <<"lineHeight", Num(1800)>>, <<"letterSpacing", Num(20)>>,
           <<"wordSpacing", Num(2000)>>, <<"maxWidthCh", Num(60000)>>,
           <<"paraSpacingEm", Num(1000)>>, <<"theme", Str(Light)>>>>
    [] name = "Large print" ->
         <<<<"fontFamily", Str(System)>>, <<"fontSize", Num(22000)>>,
           <<"lineHeight", Num(1900)>>, <<"letterSpacing", Num(10)>>,
           <<"wordSpacing", Num(1000)>>, <<"maxWidthCh", Num(58000)>>,
           <<"paraSpacingEm", Num(1100)>>, <<"theme", Str(HighContrast)>>>>

PresetNames == {"Default", "Reader", "Dyslexia-friendly", "Large print"}

\* variant: a preset also clears the text
PresetsClearText(name) == Append(PresetValues(name), <<"inputText", Str(<<>>)>>)

\* presets[name]: the setter calls the closure makes
Presets(name) == PresetValues(name)

\* setValue(v) of hook k, for each call of a handler in turn
RECURSIVE Enqueue(_, _)
Enqueue(q, calls) ==
  IF calls = <<>> THEN q
  ELSE Enqueue([q EXCEPT ![Head(calls)[1]] = Append(@, Head(calls)[2])], Tail(calls))

RECURSIVE LastArgs(_, _)
LastArgs(ls, calls) ==
  IF calls = <<>> THEN ls
  ELSE LastArgs([ls EXCEPT ![Head(calls)[1]] = Head(calls)[2]], Tail(calls))

CallKeys(calls) == {calls[i][1] : i \in 1..Len(calls)}

\* the effects of the first commit are scheduled and none has run yet
BeforeMountEffects == phase = "mount" /\ ~remounted /\ pending = MountEffects

\* one event handler: React runs it to the end, then renders. An event is
\* handled between two commits, or after the first commit and before its
\* effects: React runs pending effects before the render, not before the
\* handler
Handler(calls, preset) ==
  /\ pending = <<>> \/ BeforeMountEffects
  /\ ~sync
  /\ edits < MaxEdits
  /\ queue' = Enqueue(queue, calls)
  /\ sync' = TRUE
  /\ phase' = "live"
  /\ lastSet' = LastArgs(lastSet, calls)
  /\ durable' = durable \ CallKeys(calls)
  /\ owed' = owed \cup CallKeys(calls)
  /\ lastPreset' = preset
  /\ preApply' = IF preset = NoPreset THEN NoPreApply
                 ELSE [value |-> value,
                       text |-> Reduce(value["inputText"], queue["inputText"]),
                       record |-> RecordOf(storage, "inputText")]
  /\ edits' = edits + 1
  /\ ended' = "returned"
  /\ ahead' = IF pending = <<>> THEN ahead
              ELSE [k \in Keys |-> Len(Enqueue(queue, calls)[k])]
  /\ early' = IF pending # <<>> THEN early \cup CallKeys(calls)
              ELSE early \ CallKeys(calls)
  /\ UNCHANGED <<value, pending, remounted, crashed, storage, storageMode, dataTheme, style,
                 boot, readThrew, prior, attempted, writeFailed, restarts>>

\* the controls are on the page only while the tree is mounted
Mounted == ~crashed

SetTheme(t) ==
  /\ Mounted
  /\ Handler(<<<<"theme", Str(t)>>>>, NoPreset)

SetFontFamily(f) ==
  /\ Mounted
  /\ Handler(<<<<"fontFamily", Str(f)>>>>, NoPreset)

SetFontSize(n) ==
  /\ Mounted
  /\ Handler(<<<<"fontSize", Num(n)>>>>, NoPreset)

SetLineHeight(n) ==
  /\ Mounted
  /\ Handler(<<<<"lineHeight", Num(n)>>>>, NoPreset)

SetLetterSpacing(n) ==
  /\ Mounted
  /\ Handler(<<<<"letterSpacing", Num(n)>>>>, NoPreset)

SetWordSpacing(n) ==
  /\ Mounted
  /\ Handler(<<<<"wordSpacing", Num(n)>>>>, NoPreset)

SetMaxWidthCh(n) ==
  /\ Mounted
  /\ Handler(<<<<"maxWidthCh", Num(n)>>>>, NoPreset)

SetParaSpacingEm(n) ==
  /\ Mounted
  /\ Handler(<<<<"paraSpacingEm", Num(n)>>>>, NoPreset)

SetInputText(s) ==
  /\ Mounted
  /\ Handler(<<<<"inputText", Str(s)>>>>, NoPreset)

\* functions every object literal inherits from Object.prototype
InheritedMethods == {"toString", "valueOf"}

\* presets[name]: a property lookup on an object literal. It finds the
\* closure of a preset, or a method the object inherits (which calls no
\* setter), or undefined
PresetClosure(name) ==
  IF name \in PresetNames THEN [defined |-> TRUE, calls |-> Presets(name)]
  ELSE IF name \in InheritedMethods THEN [defined |-> TRUE, calls |-> <<>>]
  ELSE [defined |-> FALSE, calls |-> <<>>]

\* an event handler that ends without having called a setter, by returning
\* or by an error: nothing is queued and React renders nothing
Ends(how) ==
  /\ pending = <<>>
  /\ ~sync
  /\ edits < MaxEdits
  /\ ended' = how
  /\ edits' = edits + 1
  /\ UNCHANGED <<value, queue, sync, pending, phase, remounted, crashed, storage,
                 storageMode, dataTheme, style, boot, readThrew, lastSet, durable,
                 prior, attempted, writeFailed, owed, lastPreset, preApply,
                 restarts, ahead, early>>

\* onClick of a preset button: presets[name](), where calling undefined is
\* a TypeError
ApplyPreset(name) ==
  /\ Mounted
  /\ LET closure == PresetClosure(name)
     IN IF ~closure.defined THEN Ends("TypeError")
        ELSE IF Len(closure.calls) = 0 THEN Ends("returned")
        ELSE Handler(closure.calls, name)

(* ----------------------------- environment ----------------------------- *)
\* the page is reloaded: new state from the initial values, same localStorage
Restart ==
  /\ pending = <<>>
  /\ ~sync
  /\ restarts < MaxRestarts
  /\ value' = InitialValue
  /\ queue' = [k \in Keys |-> <<>>]
  /\ pending' = MountEffects
  /\ phase' = "mount"
  /\ remounted' = FALSE
  /\ crashed' = FALSE
  /\ dataTheme' = <<>>
  /\ style' = NoStyle
  /\ boot' = storage
  /\ readThrew' = {}
  /\ prior' = [k \in Keys |-> IF k \in durable THEN lastSet[k] ELSE None]
  /\ lastSet' = [k \in Keys |-> None]
  /\ durable' = {}
  /\ attempted' = [k \in Keys |-> None]
  /\ writeFailed' = {}
  /\ owed' = {}
  /\ lastPreset' = NoPreset
  /\ preApply' = NoPreApply
  /\ restarts' = restarts + 1
  /\ ahead' = NoneAhead
  /\ early' = {}
  /\ UNCHANGED <<sync, storage, storageMode, edits, ended>>

Next ==
  \/ \E k \in Keys : HydrateEffect(k)
  \/ \E k \in Keys : PersistEffect(k)
  \/ ThemeEffect
  \/ StyleEffect
  \/ Render
  \/ \E t \in Themes : SetTheme(t)
  \/ \E f \in Fonts : SetFontFamily(f)
  \/ \E n \in SliderStops("fontSize") : SetFontSize(n)
  \/ \E n \in SliderStops("lineHeight") : SetLineHeight(n)
  \/ \E n \in SliderStops("letterSpacing") : SetLetterSpacing(n)
  \/ \E n \in SliderStops("wordSpacing") : SetWordSpacing(n)
  \/ \E n \in SliderStops("maxWidthCh") : SetMaxWidthCh(n)
  \/ \E n \in SliderStops("paraSpacingEm") : SetParaSpacingEm(n)
  \/ \E s \in TextInputs : SetInputText(s)
  \/ \E name \in PresetNames : ApplyPreset(name)
  \/ Restart

Spec == Init /\ [][Next]_vars

\* React's development build (Strict Mode, which the framework turns on by
\* default) runs the effects of a newly mounted component a second time,
\* right after the first pass and before the next render
StrictRemount ==
  /\ phase = "mount"
  /\ pending = <<>>
  /\ ~remounted
  /\ ~crashed
  /\ pending' = MountEffects
  /\ remounted' = TRUE
  /\ UNCHANGED <<value, queue, sync, phase, crashed, storage, storageMode,
                 dataTheme, style, boot, readThrew, lastSet, durable, prior,
                 attempted, writeFailed, owed, lastPreset, preApply, edits,
                 restarts, ended, ahead, early>>

NextStrict == Next \/ StrictRemount

SpecStrict == Init /\ [][NextStrict]_vars

\* the setter a hook returns takes any value of its type: a caller other
\* than the range inputs may pass a number outside the slider's range
OutOfRange(k) == {RangeMin[k] - Scale, RangeMax[k] + Scale}

SetValue(k, n) ==
  /\ Mounted
  /\ Handler(<<<<k, Num(n)>>>>, NoPreset)

\* names the Preset type does not have
UnknownNames == {"Sepia", "toString"}

NextApi ==
  \/ Next
  \/ \E k \in NumericKeys : \E n \in OutOfRange(k) : SetValue(k, n)
  \/ \E name \in UnknownNames : ApplyPreset(name)

SpecApi == Init /\ [][NextApi]_vars

(* ------------------------------- claims -------------------------------- *)
\* the nearest value of k's declared domain
Clamp(k, v) ==
  IF k \in NumericKeys /\ v.t = "num"
  THEN Num(IF v.n < RangeMin[k] THEN RangeMin[k]
           ELSE IF v.n > RangeMax[k] THEN RangeMax[k] ELSE v.n)
  ELSE v

\* no control has acted since the page was loaded
NoEdits == \A k \in Keys : lastSet[k] = None

\* the record the page load found for k is JSON and its read did not throw
Readable(k) ==
  /\ k \notin readThrew
  /\ HasRecord(boot, k)
  /\ JSONparse(RecordOf(boot, k)).ok

\* what one run of the hydrate step leaves in memory for k
Hydrated(k) ==
  IF Readable(k) THEN JSONparse(RecordOf(boot, k)).v ELSE InitialValue[k]

InDomain ==
  \A k \in NumericKeys :
    /\ value[k].t = "num"
    /\ RangeMin[k] <= value[k].n
    /\ value[k].n <= RangeMax[k]

\* C3: once set(k, v) has been rendered, get(k) is clamp(v): v inside the
\* domain, the nearest boundary otherwise (for a set made once the mount
\* effects have run)
SetThenGetIsClamped ==
  \A k \in Keys :
    (lastSet[k] # None /\ queue[k] = <<>> /\ ~crashed /\ k \notin early)
      => value[k] = Clamp(k, lastSet[k])

\* C4: after startup, a key whose record is not JSON or whose read threw
\* holds its default and every other key holds the value of its record; an
\* error escapes only through a record that is JSON of the wrong type
HydrationIsolation ==
  /\ (Quiescent /\ ~crashed /\ NoEdits) => \A k \in Keys : value[k] = Hydrated(k)
  /\ crashed => \E k \in Keys : Readable(k) /\ Hydrated(k).t # InitialValue[k].t

HydrationIsolationWitness ==
  /\ Quiescent /\ ~crashed /\ NoEdits
  /\ RecordOf(boot, "theme") = Light
  /\ RecordOf(boot, "fontSize") = <<"2", "2">>
  /\ value["theme"] = InitialValue["theme"]
  /\ value["fontSize"] = Num(22000)

\* C5: running the mount effects a second time during startup gives the
\* memory and the records that one run gives
HydrateIdempotent ==
  (remounted /\ Quiescent /\ ~crashed /\ NoEdits)
    => \A k \in Keys :
         /\ value[k] = Hydrated(k)
         /\ storageMode = "ok" => RecordOf(storage, k) = JSONstringify(Hydrated(k))

\* C6: a persist effect whose write throws changes neither the state nor the
\* queued updates, lets no error out and leaves the remaining effects to run
WriteFailureSwallowed ==
  [][(\E k \in Keys : HeadIs("persist", k) /\ storageMode # "ok")
       => /\ value' = value
          /\ queue' = queue
          /\ ~crashed'
          /\ pending' = Tail(pending)
          /\ storage' = storage]_vars

WriteFailureSwallowedWitness ==
  /\ Quiescent /\ ~crashed
  /\ storageMode = "denied"
  /\ "fontSize" \in writeFailed
  /\ lastSet["fontSize"] = Num(26000)
  /\ value["fontSize"] = Num(26000)
  /\ ~HasRecord(storage, "fontSize")

\* C7 as stated: once the page is at rest, every set has had a write of its
\* key attempted after it
SetAlwaysWrites == (Quiescent /\ ~crashed) => owed = {}

\* C7 as amended: once the page is at rest, the latest write attempted for a
\* key was of the value in memory, which is the value of the latest set (the
\* write a set triggers when it changes the value, also after a failed one);
\* a set made before the hydrate effects ran may have been followed by the
\* write of the hydrated value
ChangeAlwaysWrites ==
  (Quiescent /\ ~crashed)
    => \A k \in Keys :
         /\ attempted[k] = value[k]
         /\ (lastSet[k] # None /\ k \notin early) => attempted[k] = lastSet[k]

ChangeAlwaysWritesWitness ==
  /\ Quiescent /\ ~crashed
  /\ storageMode = "full"
  /\ "lineHeight" \in writeFailed
  /\ lastSet["lineHeight"] = Num(2000)
  /\ attempted["lineHeight"] = Num(2000)
  /\ owed = {}

PresetValueOf(name, k) ==
  LET rows == PresetValues(name)
  IN rows[CHOOSE i \in 1..Len(rows) : rows[i][1] = k][2]

\* C8: once a preset has been applied and rendered, the eight display keys
\* hold its table values and the text, in memory and in its record, is what
\* it was when the preset was clicked (a preset clicked once the mount
\* effects have run: hydration may overwrite an earlier one)
PresetComplete ==
  (Quiescent /\ ~crashed /\ lastPreset # NoPreset /\ DisplayKeys \cap early = {})
    => /\ \A k \in DisplayKeys : value[k] = PresetValueOf(lastPreset, k)
       /\ lastPreset = "Large print"
            => /\ value["fontSize"] = Num(22000)
               /\ value["lineHeight"] = Num(1900)
               /\ value["theme"] = Str(HighContrast)
       /\ value["inputText"] = preApply.text
       /\ preApply.text = preApply.value["inputText"]
            => RecordOf(storage, "inputText") = preApply.record

PresetCompleteWitness ==
  /\ Quiescent /\ ~crashed
  /\ lastPreset = "Large print"
  /\ value["fontSize"] = Num(22000)
  /\ value["theme"] = Str(HighContrast)
  /\ preApply.value["fontSize"] = Num(100000)
  /\ value["inputText"] = Str(<<"a", "\"">>)
  /\ RecordOf(storage, "inputText") = <<"\"", "a", "\\", "\"", "\"">>

\* some display keys hold the preset's values, others still the earlier ones
PartlyApplied ==
  \E k1, k2 \in DisplayKeys :
    /\ value[k1] = PresetValueOf(lastPreset, k1)
    /\ value[k1] # preApply.value[k1]
    /\ value[k2] = preApply.value[k2]
    /\ value[k2] # PresetValueOf(lastPreset, k2)

\* C9: no state, and so no projection effect, sees a preset partly applied
\* (a preset clicked once the mount effects have run: hydration may put a
\* stored value back over one key of an earlier one)
PresetAtomic ==
  (lastPreset # NoPreset /\ DisplayKeys \cap early = {}) => ~PartlyApplied

PresetAtomicWitness ==
  /\ HeadIs("style", "-")
  /\ lastPreset = "Large print"
  /\ preApply.value = InitialValue
  /\ dataTheme = HighContrast
  /\ style.fontSize = <<"1", "8", "p", "x">>
  /\ \A k \in DisplayKeys : value[k] = PresetValueOf("Large print", k)

\* C10: startup with no record at all, or with every read throwing, ends
\* with every key at its default
DefaultScenario ==
  (Quiescent /\ NoEdits /\ (DOMAIN boot = {} \/ readThrew = Keys))
    => /\ ~crashed
       /\ value = InitialValue
       /\ value["fontSize"] = Num(18000)
       /\ value["lineHeight"] = Num(1650)
       /\ value["maxWidthCh"] = Num(68000)
       /\ value["theme"] = Str(Light)

DefaultScenarioWitness ==
  /\ Quiescent /\ NoEdits
  /\ restarts = 0
  /\ DOMAIN boot = {}
  /\ storageMode = "ok"
  /\ \A k \in Keys : RecordOf(storage, k) = JSONstringify(InitialValue[k])
  /\ value["fontSize"] = Num(18000)

\* the preference each presentation variable shows, and its unit
ShownBy ==
  [fontSize |-> "fontSize", lineHeight |-> "lineHeight",
   letterSpacing |-> "letterSpacing", wordSpacing |-> "wordSpacing",
   maxWidth |-> "maxWidthCh", paragraphSpacing |-> "paraSpacingEm"]

Unit ==
  [fontSize |-> <<"p", "x">>, lineHeight |-> <<>>, letterSpacing |-> <<"e", "m">>,
   wordSpacing |-> <<"p", "x">>, maxWidth |-> <<"c", "h">>,
   paragraphSpacing |-> <<"e", "m">>]

\* the seven presentation variables of a snapshot
Mapped(v) ==
  [font |-> IF v["fontFamily"] = Str(Atkinson)
            THEN "var(--font-atkinson), var(--font-sans)" ELSE "var(--font-sans)",
   fontSize |-> ToText(v[ShownBy.fontSize]) \o Unit.fontSize,
   lineHeight |-> ToText(v[ShownBy.lineHeight]) \o Unit.lineHeight,
   letterSpacing |-> ToText(v[ShownBy.letterSpacing]) \o Unit.letterSpacing,
   wordSpacing |-> ToText(v[ShownBy.wordSpacing]) \o Unit.wordSpacing,
   maxWidth |-> ToText(v[ShownBy.maxWidth]) \o Unit.maxWidth,
   paragraphSpacing |-> ToText(v[ShownBy.paragraphSpacing]) \o Unit.paragraphSpacing]

\* C11: whenever no effect is left to run, the root theme attribute and the
\* seven presentation variables are the mapping of the snapshot in memory,
\* all of them; and a projection effect that runs again on a snapshot it has
\* already projected leaves the attribute and the variables as they are
ProjectionCurrent ==
  [][
      /\ (pending' = <<>> /\ ~crashed')
           => (dataTheme' = ToText(value'["theme"]) /\ style' = Mapped(value'))
      /\ (HeadIs("style", "-") /\ style = Mapped(value)) => style' = style
      /\ (HeadIs("theme", "-") /\ dataTheme = ToText(value["theme"]))
           => dataTheme' = dataTheme
    ]_vars

ProjectionCurrentWitness ==
  /\ remounted /\ Quiescent /\ ~crashed
  /\ lastPreset = "Large print"
  /\ dataTheme = HighContrast
  /\ style.font = "var(--font-sans)"
  /\ style.fontSize = <<"2", "2", "p", "x">>
  /\ style.lineHeight = <<"1", ".", "9">>
  /\ style.letterSpacing = <<"0", ".", "0", "1", "e", "m">>
  /\ style.wordSpacing = <<"1", "p", "x">>
  /\ style.maxWidth = <<"5", "8", "c", "h">>
  /\ style.paragraphSpacing = <<"1", ".", "1", "e", "m">>

\* C12: applying a name that is not one of the four presets ends in an
\* error and changes neither the values in memory, nor the queued updates,
\* nor any record
UnknownPresetFails ==
  [][(\E name \in UnknownNames : ApplyPreset(name))
       => /\ ended' = "TypeError"
          /\ value' = value
          /\ queue' = queue
          /\ storage' = storage]_vars

\* the value the latest writer of k's state gave it
Latest(k) == IF queue[k] = <<>> THEN value[k] ELSE queue[k][Len(queue[k])]

\* per key, the last writer wins: a control's value set once the mount
\* effects have run stays; one set before them is, once the page is at rest,
\* replaced by the stored value of the same key if that key has a readable
\* record, and stays otherwise
LastWriterWins ==
  ~crashed
    => \A k \in Keys :
         lastSet[k] # None
           => /\ k \notin early => Latest(k) = lastSet[k]
              /\ (k \in early /\ Quiescent)
                   => value[k] = IF Readable(k) THEN Hydrated(k) ELSE lastSet[k]

\* C13: the last writer wins per key in every state; a run of the hydrate
\* effect of key k queues an update for k alone and changes no value; and,
\* short of a reload, no step changes the value of a key that has no update
\* queued
HydrationRace ==
  [][
      /\ LastWriterWins'
      /\ \A k \in Keys :
           (HeadIs("hydrate", k) /\ pending' = Tail(pending))
             => /\ value' = value
                /\ \A j \in Keys \ {k} : queue'[j] = queue[j]
      /\ restarts' = restarts
           => \A j \in Keys : queue[j] = <<>> => value'[j] = value[j]
    ]_vars

HydrationRaceWitness ==
  /\ "fontSize" \in early /\ Quiescent /\ ~crashed
  /\ storageMode = "ok"
  /\ lastPreset = "Reader"
  /\ RecordOf(boot, "fontSize") = <<"2", "2">>
  /\ lastSet["fontSize"] = Num(19000)
  /\ value["fontSize"] = Num(22000)
  /\ RecordOf(storage, "fontSize") = <<"2", "2">>
  /\ value["lineHeight"] = Num(1700)
  /\ RecordOf(storage, "lineHeight") = <<"1", ".", "7">>

\* C14: in every reachable state theme is one of light, dark, high-contrast
\* and fontFamily is one of system, atkinson
EnumerationsKept ==
  /\ value["theme"] \in {Str(t) : t \in Themes}
  /\ value["fontFamily"] \in {Str(f) : f \in Fonts}

\* no hydrate effect and no persist effect is left to run
NoStorageEffectPending ==
  \A i \in 1..Len(pending) : pending[i].e \notin {"hydrate", "persist"}

\* C15: whenever no hydrate or persist effect is pending, the record of every
\* key whose latest write did not fail is the JSON text of the key's value in
\* memory
QuiescentSync ==
  NoStorageEffectPending
    => \A k \in Keys :
         k \notin writeFailed => RecordOf(storage, k) = JSONstringify(value[k])

QuiescentSyncWitness ==
  /\ NoStorageEffectPending /\ Quiescent /\ ~crashed
  /\ storageMode = "ok" /\ writeFailed = {}
  /\ RecordOf(boot, "theme") = JSONstringify(Str(Dark))
  /\ value["theme"] = Str(Dark)
  /\ lastSet["fontSize"] = Num(26000)
  /\ value["fontSize"] = Num(26000)
  /\ RecordOf(storage, "fontSize") = <<"2", "6">>
  /\ RecordOf(storage, "theme") = JSONstringify(Str(Dark))

\* the record the page load found for k is a value of k's type and domain
ValidAtBoot(k) ==
  /\ Readable(k)
  /\ LET v == Hydrated(k)
     IN CASE k \in NumericKeys -> v.t = "num" /\ Clamp(k, v) = v
          [] k = "theme" -> v \in {Str(t) : t \in Themes}
          [] k = "fontFamily" -> v \in {Str(f) : f \in Fonts}
          [] OTHER -> v.t = "str"

\* C16: as long as no control has acted since the page was loaded, a key
\* whose record was valid when the page was loaded still has that value as
\* its record, in every state startup passes through
NoClobber ==
  NoEdits
    => \A k \in Keys :
         ValidAtBoot(k)
           => /\ HasRecord(storage, k)
              /\ JSONparse(RecordOf(storage, k)) = JSONparse(RecordOf(boot, k))

\* the keys a control has set since the page was loaded
SetKeys == {k \in Keys : lastSet[k] # None}

\* after one set(k, v) and the effects it triggers, every other key has in
\* memory and as its record what startup alone gave it
OthersAsHydrated ==
  (Quiescent /\ ~crashed /\ lastPreset = NoPreset /\ Cardinality(SetKeys) = 1)
    => \A j \in Keys \ SetKeys :
         /\ value[j] = Hydrated(j)
         /\ j \notin writeFailed => RecordOf(storage, j) = JSONstringify(Hydrated(j))

\* C17: the nine storage keys are pairwise distinct; a run of the persist
\* effect of key k changes no value and no record but k's; the handler of a
\* single control queues an update for the key it sets alone and changes no
\* value and no record; and once set(k, v) and the persist it triggers are
\* done, the other eight values and records are what startup left
PerKeyFrame ==
  /\ []OthersAsHydrated
  /\ [][
      /\ \A j, k \in Keys : j # k => StorageKey[j] # StorageKey[k]
      /\ \A k \in Keys :
           (HeadIs("persist", k) /\ pending' = Tail(pending))
             => /\ value' = value
                /\ \A j \in Keys \ {k} : RecordOf(storage', j) = RecordOf(storage, j)
      /\ (edits' = edits + 1 /\ lastPreset' = NoPreset)
           => /\ value' = value
              /\ storage' = storage
              /\ \E k \in Keys :
                   /\ lastSet'[k] # None
                   /\ \A j \in Keys \ {k} : queue'[j] = queue[j]
     ]_vars

PerKeyFrameWitness ==
  /\ Quiescent /\ ~crashed /\ lastPreset = NoPreset
  /\ storageMode = "ok"
  /\ SetKeys = {"wordSpacing"}
  /\ value["wordSpacing"] = Num(6000)
  /\ RecordOf(storage, "wordSpacing") = <<"6">>
  /\ RecordOf(boot, "letterSpacing") = <<"0", ".", "0", "0", "5">>
  /\ value["letterSpacing"] = Num(5)
  /\ RecordOf(storage, "letterSpacing") = <<"0", ".", "0", "0", "5">>
  /\ ~HasRecord(boot, "wordSpacing")

====
